---- MODULE Spec2Model ----
(***************************************************************************)
(* Document review pipeline of the PublicPulse backend: the handlers of    *)
(* routers/users.py working on services/database.py (DatabaseService),     *)
(* with the Gemini AI service as the AI collaborator; and the document     *)
(* handlers of the single-file application app_new.py, which keep their    *)
(* documents in the module-level dict mock_documents.                      *)
(*                                                                         *)
(* Wall-clock values (created_at, updated_at, the *_reviewed_at stamps)    *)
(* are abstracted: a stamp is either None or Stamp.                        *)
(***************************************************************************)
EXTENDS Integers, Sequences, FiniteSets, TLC

VARIABLES supabase, table, documents, nextId, last, mock_documents, ai_call

vars == <<supabase, table, documents, nextId, last, mock_documents, ai_call>>

\* ---------------------------------------------------------------- bounds
MaxDocs == 2

\* ------------------------------------------------------------ vocabulary
None == "<None>"
Absent == "<absent>"
Stamp == "<timestamp>"

\* Wire-visible status vocabulary of the specification (section 6).
StatusVocabulary ==
    {"submitted", "ai_processed", "official_reviewed",
     "approved", "rejected", "needs_changes"}

TerminalStatuses == {"approved", "rejected", "needs_changes"}

\* Transition table of the specification (section 4.1), as from/to pairs.
TransitionTable ==
    {<<"submitted", "ai_processed">>,
     <<"submitted", "official_reviewed">>,
     <<"ai_processed", "official_reviewed">>,
     <<"official_reviewed", "approved">>,
     <<"official_reviewed", "rejected">>,
     <<"official_reviewed", "needs_changes">>}

AdminActions == {"approve", "reject", "request_changes"}

\* The specification's action -> terminal status map (section 4.1).
ActionStatus(action) ==
    CASE action = "approve" -> "approved"
      [] action = "reject" -> "rejected"
      [] action = "request_changes" -> "needs_changes"
      [] OTHER -> None

DepartmentCodes == {"nira", "ursb", "immigration", "finance", "health"}

\* ------------------------------------------------------- pure functions
\* str.strip() on the comment values used here.
Whitespace == {" ", "\t", "\n"}

RECURSIVE LStrip(_)
LStrip(s) ==
    IF s = <<>> THEN s
    ELSE IF Head(s) \in Whitespace THEN LStrip(Tail(s)) ELSE s

RECURSIVE RStrip(_)
RStrip(s) ==
    IF s = <<>> THEN s
    ELSE IF s[Len(s)] \in Whitespace THEN RStrip(SubSeq(s, 1, Len(s) - 1)) ELSE s

strip(s) == RStrip(LStrip(s))

\* Comments are sequences of one-character strings.  A comment field that
\* holds None holds NoComment.  request.get("comment", "") reads an absent
\* key as the empty string, so EmptyComment stands for both.
EmptyComment == <<>>
BlankComment == <<" ", " ">>
FineComment == <<"o", "k">>
NoComment == <<None>>

\* determine_department with department_mapping.get(document_type): no
\* default for a type the mapping does not list.
determine_department_nodefault(document_type) ==
    CASE document_type = "national_id" -> "nira"
      [] document_type = "drivers_license" -> "nira"
      [] document_type = "birth_certificate" -> "nira"
      [] document_type = "passport" -> "immigration"
      [] document_type = "visa" -> "immigration"
      [] document_type = "marriage_certificate" -> "ursb"
      [] document_type = "business_registration" -> "ursb"
      [] document_type = "tax_certificate" -> "finance"
      [] document_type = "health_certificate" -> "health"
      [] document_type = "other" -> "nira"
      [] OTHER -> None

determine_department(document_type) ==
    CASE document_type = "national_id" -> "nira"
      [] document_type = "drivers_license" -> "nira"
      [] document_type = "birth_certificate" -> "nira"
      [] document_type = "passport" -> "immigration"
      [] document_type = "visa" -> "immigration"
      [] document_type = "marriage_certificate" -> "ursb"
      [] document_type = "business_registration" -> "ursb"
      [] document_type = "tax_certificate" -> "finance"
      [] document_type = "health_certificate" -> "health"
      [] document_type = "other" -> "nira"
      [] OTHER -> "nira"

\* ---------------------------------------------------- the AI collaborator
\* Outcome of one use of the AI collaborator by a handler.
\*   "absent": get_ai_service() returns None: GEMINI_API_KEY is not set, or
\*       the constructor raised.  (GeminiAIService.__init__ imports os
\*       locally only when it is given no key and then reads os.getenv, so
\*       the construction get_ai_service attempts, with a key, raises.)
\*   "result": the call returns a result dict.  The dict that
\*       GeminiAIService.extract_document_information returns, from the API
\*       or from _fallback_extraction after a failed API call, has the keys
\*       success, extracted_data, ai_confidence, ... and no document_type.
\*   "fallback": the Gemini API call failed inside
\*       extract_document_information, whose except branch returns the
\*       _fallback_extraction dict (success: True, canned extracted_data);
\*       the handler receives a dict as in "result".
\*   "raises": the call raises; the handlers' except branches cover it.
AIOutcomes == {"absent", "raises", "result", "fallback"}

\* The handler holds a (truthy) result dict after the call.
ReturnsDict(ai) == ai \in {"result", "fallback"}

\* dict.get("document_type", "unknown") on the result dict.
ResultDocumentType == "unknown"

\* ------------------------------------------------------------ the store
\* First row of a sequence of records with the given id, 0 if there is none.
IndexOf(rows, id) ==
    IF \E i \in 1..Len(rows) : rows[i].id = id
    THEN CHOOSE i \in 1..Len(rows) :
            /\ rows[i].id = id
            /\ \A j \in 1..(i - 1) : rows[j].id # id
    ELSE 0

\* get_document_by_id answering with the first row of the store it consults
\* when no row has the id.
get_document_by_id_anyrow(id, remoteFails) ==
    LET rows == IF supabase = "client" /\ ~remoteFails THEN table ELSE documents
        src == IF supabase = "client" /\ ~remoteFails THEN "remote" ELSE "memory"
    IN  IF IndexOf(rows, id) # 0
        THEN [src |-> src, idx |-> IndexOf(rows, id)]
        ELSE IF Len(rows) > 0
             THEN [src |-> src, idx |-> 1]
             ELSE [src |-> None, idx |-> 0]

\* DatabaseService.get_document_by_id: where the returned dict comes from.
\* "remote": a fresh dict built from the query result (writes to it are not
\* stored); "memory": the very dict held in self.documents; None: no dict.
\* remoteFails: the Supabase call raises.
get_document_by_id(id, remoteFails) ==
    IF supabase = "client" /\ ~remoteFails
    THEN IF IndexOf(table, id) # 0
         THEN [src |-> "remote", idx |-> IndexOf(table, id)]
         ELSE [src |-> None, idx |-> 0]
    ELSE IF IndexOf(documents, id) # 0
         THEN [src |-> "memory", idx |-> IndexOf(documents, id)]
         ELSE [src |-> None, idx |-> 0]

Fetched(ref) ==
    IF ref.src = "remote" THEN table[ref.idx] ELSE documents[ref.idx]

\* A handler's writes to the dict it fetched: they reach the store only when
\* the dict is the one held in self.documents.
WriteBack(ref, doc) ==
    /\ documents' = IF ref.src = "memory"
                    THEN [documents EXCEPT ![ref.idx] = doc]
                    ELSE documents
    /\ table' = table

DocId(n) == n

AllDocs == [i \in 1..(Len(table) + Len(documents)) |->
              IF i <= Len(table) THEN table[i] ELSE documents[i - Len(table)]]

AllIds == {AllDocs[i].id : i \in 1..Len(AllDocs)}
DocOf(id) == AllDocs[CHOOSE i \in 1..Len(AllDocs) : AllDocs[i].id = id]

\* ------------------------------------------------------------------ Init
\* last: the response to the most recent request: the handler that served
\* it, the HTTP status code, and for Submit and get the returned payload.
NoCall == [op |-> "none", code |-> 0, body |-> <<>>]

Response(op, code) == [op |-> op, code |-> code, body |-> <<>>]

\* ai_call: the request of app_new.py that is suspended in its awaited call
\* of the AI service, if there is one, and what the Gemini endpoint does
\* with the HTTP request: "none" when no call is in flight.
NoSubmission ==
    [document_type |-> None, department_id |-> None, images |-> <<>>,
     description |-> None]

Idle == [peer |-> "none", submission |-> NoSubmission]

Init ==
    /\ supabase \in {"client", "none"}
    /\ table = <<>>
    /\ documents = <<>>
    /\ nextId = 1
    /\ last = NoCall
    /\ mock_documents = <<>>
    /\ ai_call = Idle

\* --------------------------------------------------------------- Submit
\* submit_citizen_document; request carries document_type (possibly Absent),
\* citizen_id and images (request.get("images", []): an absent key reads as
\* the empty list); ai is the AI collaborator's outcome and remoteFails
\* whether the Supabase insert raises.
submit_citizen_document(request, ai, remoteFails) ==
    LET document_id == DocId(nextId)
        images == request.images
        ai_analysis == IF ReturnsDict(ai) THEN "result" ELSE None
        document_type ==
            CASE ReturnsDict(ai) -> ResultDocumentType
              [] ai = "raises" ->
                    IF request.document_type = Absent THEN "unknown"
                    ELSE request.document_type
              [] OTHER -> "unknown"
        assigned_department == determine_department(document_type)
        citizen_id == IF request.citizen_id = Absent THEN "citizen_001"
                      ELSE request.citizen_id
        document ==
            [id |-> document_id,
             citizen_id |-> citizen_id,
             user_id |-> citizen_id,
             document_type |-> document_type,
             department_id |-> assigned_department,
             status |-> "submitted",
             images |-> images,
             description |-> request.description,
             official_review_comment |-> NoComment,
             official_reviewed_at |-> None,
             admin_review_comment |-> NoComment,
             admin_reviewed_at |-> None,
             ai_analysis |-> ai_analysis,
             ai_extraction |-> None,
             ai_validation |-> None,
             ai_assessment |-> None,
             ai_fraud_analysis |-> None]
    IN  /\ nextId <= MaxDocs
        /\ nextId' = nextId + 1
        \* DatabaseService.create_document
        /\ IF supabase = "client" /\ ~remoteFails
           THEN table' = Append(table, document) /\ documents' = documents
           ELSE documents' = Append(documents, document) /\ table' = table
        /\ last' = [op |-> "Submit", code |-> 200,
                    body |-> [document_id |-> document_id,
                              status |-> "submitted",
                              assigned_department |-> assigned_department]]
        /\ UNCHANGED <<supabase, mock_documents>>

\* ------------------------------------------------------- OfficialReview
\* official_review_document raising after its writes (as the attribute
\* reads on ai_validation would, were the AI result ever truthy).
official_review_document_thenfails(document_id, request, remoteFails) ==
    LET ref == get_document_by_id(document_id, remoteFails)
    IN  IF ref.src = None
        THEN /\ last' = Response("OfficialReview", 404)
             /\ UNCHANGED <<supabase, table, documents, nextId, mock_documents>>
        ELSE LET document == [Fetched(ref) EXCEPT
                                 !.status = "official_reviewed",
                                 !.official_review_comment = request.comment,
                                 !.official_reviewed_at = Stamp]
             IN  /\ WriteBack(ref, document)
                 /\ last' = Response("OfficialReview", 500)
                 /\ UNCHANGED <<supabase, nextId, mock_documents>>

\* official_review_document.  DocumentAnalysis is not defined in the module,
\* so the try block raises NameError before the AI service is reached and
\* ai_validation stays None.
official_review_document(document_id, request, remoteFails) ==
    LET ref == get_document_by_id(document_id, remoteFails)
    IN  IF ref.src = None
        THEN /\ last' = Response("OfficialReview", 404)
             /\ UNCHANGED <<supabase, table, documents, nextId, mock_documents>>
        ELSE LET document == [Fetched(ref) EXCEPT
                                 !.status = "official_reviewed",
                                 !.official_review_comment = request.comment,
                                 !.official_reviewed_at = Stamp]
             IN  /\ WriteBack(ref, document)
                 /\ last' = Response("OfficialReview", 200)
                 /\ UNCHANGED <<supabase, nextId, mock_documents>>

\* ---------------------------------------------------------- AdminReview
\* admin_review_document.  As in the official review, the NameError on
\* DocumentAnalysis leaves ai_assessment None.  The handler reads the keys
\* status and comment of the request; it does not read the key action.
admin_review_document(document_id, request, remoteFails) ==
    LET ref == get_document_by_id(document_id, remoteFails)
        final_status == IF request.status = Absent THEN "approved"
                        ELSE request.status
    IN  IF ref.src = None
        THEN /\ last' = Response("AdminReview", 404)
             /\ UNCHANGED <<supabase, table, documents, nextId, mock_documents>>
        ELSE LET document == [Fetched(ref) EXCEPT
                                 !.status = final_status,
                                 !.admin_review_comment = request.comment,
                                 !.admin_reviewed_at = Stamp]
             IN  /\ WriteBack(ref, document)
                 /\ last' = Response("AdminReview", 200)
                 /\ UNCHANGED <<supabase, nextId, mock_documents>>

\* -------------------------------------------------------- RunExtraction
\* extract_document_information also storing a document type taken from
\* the AI result.
extract_document_information_retype(document_id, ai, remoteFails) ==
    LET ref == get_document_by_id(document_id, remoteFails)
    IN  IF ref.src = None
        THEN /\ last' = Response("RunExtraction", 404)
             /\ UNCHANGED <<supabase, table, documents, nextId, mock_documents>>
        ELSE LET document ==
                    IF ReturnsDict(ai)
                    THEN [Fetched(ref) EXCEPT
                             !.ai_extraction = "block",
                             !.status = "ai_processed",
                             !.document_type = "detected"]
                    ELSE Fetched(ref)
             IN  /\ WriteBack(ref, document)
                 /\ last' = Response("RunExtraction", 200)
                 /\ UNCHANGED <<supabase, nextId, mock_documents>>

\* extract_document_information: the block is written and the status set
\* only when the AI service returned a (truthy) result.
extract_document_information(document_id, ai, remoteFails) ==
    LET ref == get_document_by_id(document_id, remoteFails)
        ai_extraction == IF ReturnsDict(ai) THEN "result" ELSE None
    IN  IF ref.src = None
        THEN /\ last' = Response("RunExtraction", 404)
             /\ UNCHANGED <<supabase, table, documents, nextId, mock_documents>>
        ELSE LET document ==
                    IF ai_extraction # None
                    THEN [Fetched(ref) EXCEPT
                             !.ai_extraction = "block",
                             !.status = "ai_processed"]
                    ELSE Fetched(ref)
             IN  /\ WriteBack(ref, document)
                 /\ last' = Response("RunExtraction", 200)
                 /\ UNCHANGED <<supabase, nextId, mock_documents>>

\* --------------------------------------------------------- AnalyzeFraud
\* analyze_document_fraud: both branches that build extracted_data call
\* DocumentAnalysis, which the module does not define; the NameError is
\* raised outside the inner try and the outer handler turns it into a 500
\* before the AI service is called or the document written.
analyze_document_fraud(document_id, remoteFails) ==
    LET ref == get_document_by_id(document_id, remoteFails)
    IN  /\ last' = Response("AnalyzeFraud", IF ref.src = None THEN 404 ELSE 500)
        /\ UNCHANGED <<supabase, table, documents, nextId, mock_documents>>

\* ------------------------------------------------------------------ get
\* GET /official/documents/{document_id}: returns the fetched dict.
get_document(document_id, remoteFails) ==
    LET ref == get_document_by_id(document_id, remoteFails)
    IN  /\ last' = IF ref.src = None
                   THEN Response("get", 404)
                   ELSE [op |-> "get", code |-> 200, body |-> Fetched(ref)]
        /\ UNCHANGED <<supabase, table, documents, nextId, mock_documents>>

\* ---------------------------------------------------------------- lists
\* DatabaseService.get_documents_by_citizen: with a client whose call
\* succeeds, the rows whose citizen_id column equals the argument (the word
\* "all" is compared like any other value); otherwise the in-memory list,
\* whole for "all" and filtered for any other argument.
get_documents_by_citizen(citizen_id, remoteFails) ==
    LET Mine(doc) == doc.citizen_id = citizen_id
    IN  IF supabase = "client" /\ ~remoteFails
        THEN SelectSeq(table, Mine)
        ELSE IF citizen_id = "all" THEN documents
             ELSE SelectSeq(documents, Mine)

\* The value of a row's "department" column: the dicts that
\* submit_citizen_document inserts have the key department_id and no key
\* department.
DepartmentColumn(row) == None

\* DatabaseService.get_documents_by_department: selects on the column
\* "department" of the remote table in every store mode; without a client,
\* or when the call raises, the except branch answers with the empty list.
\* The in-memory list is not consulted.
get_documents_by_department(department, remoteFails) ==
    LET Routed(row) == DepartmentColumn(row) = department
    IN  IF supabase = "client" /\ ~remoteFails
        THEN SelectSeq(table, Routed)
        ELSE <<>>

ListResponse(op, docs) ==
    [op |-> op, code |-> 200,
     body |-> [documents |-> docs, total_count |-> Len(docs)]]

\* GET /citizen/my-documents: always lists citizen_001.
get_citizen_documents(remoteFails) ==
    /\ last' = ListResponse("my-documents",
                            get_documents_by_citizen("citizen_001", remoteFails))
    /\ UNCHANGED <<supabase, table, documents, nextId, mock_documents>>

\* GET /official/documents: lists "all".
get_official_documents(remoteFails) ==
    /\ last' = ListResponse("official-documents",
                            get_documents_by_citizen("all", remoteFails))
    /\ UNCHANGED <<supabase, table, documents, nextId, mock_documents>>

\* GET /official/documents/department/{department_id}
get_department_documents(department_id, remoteFails) ==
    LET docs == get_documents_by_department(department_id, remoteFails)
    IN  /\ last' = [op |-> "department-documents", code |-> 200,
                    body |-> [documents |-> docs, total_count |-> Len(docs),
                              department |-> department_id]]
        /\ UNCHANGED <<supabase, table, documents, nextId, mock_documents>>

\* ---------------------------------------------------------------- stats
\* The overview with every document counted as pending.
get_documents_stats_overview_allpending(remoteFails, todays) ==
    LET all_docs == get_documents_by_citizen("all", remoteFails)
        Every(doc) == TRUE
        Never(doc) == FALSE
    IN  /\ last' = [op |-> "stats-overview", code |-> 200,
                    body |-> [total_documents |-> Len(all_docs) + 1,
                              pending |-> Len(SelectSeq(all_docs, Every)) + 1,
                              ai_processed |-> Len(SelectSeq(all_docs, Never)),
                              official_review |-> Len(SelectSeq(all_docs, Every)),
                              admin_review |-> Len(SelectSeq(all_docs, Never)),
                              completed |-> Len(SelectSeq(all_docs, Never)),
                              rejected |-> Len(SelectSeq(all_docs, Never)),
                              completed_today |-> Len(SelectSeq(all_docs, Every))]]
        /\ UNCHANGED <<supabase, table, documents, nextId, mock_documents>>

\* get_documents_stats_overview: one pass over the documents that
\* get_documents_by_citizen("all") returns.  todays is the set of ids of the
\* documents whose updated_at is_today() accepts when the handler runs.
get_documents_stats_overview(remoteFails, todays) ==
    LET all_docs == get_documents_by_citizen("all", remoteFails)
        Pending(doc) == doc.status \in {"submitted", "pending"}
        OfficialReviewed(doc) == doc.status = "official_reviewed"
        Completed(doc) == doc.status \in {"approved"}
        CompletedToday(doc) == Completed(doc) /\ doc.id \in todays
        Rejected(doc) == doc.status = "rejected"
        AIProcessed(doc) ==
            doc.status = "ai_processed" \/ doc.ai_extraction # None
        AdminReviewed(doc) ==
            doc.admin_review_comment # NoComment \/ doc.ai_assessment # None
    IN  /\ last' = [op |-> "stats-overview", code |-> 200,
                    body |-> [total_documents |-> Len(all_docs),
                              pending |-> Len(SelectSeq(all_docs, Pending)),
                              ai_processed |-> Len(SelectSeq(all_docs, AIProcessed)),
                              official_review |->
                                  Len(SelectSeq(all_docs, OfficialReviewed)),
                              admin_review |-> Len(SelectSeq(all_docs, AdminReviewed)),
                              completed |-> Len(SelectSeq(all_docs, Completed)),
                              rejected |-> Len(SelectSeq(all_docs, Rejected)),
                              completed_today |->
                                  Len(SelectSeq(all_docs, CompletedToday))]]
        /\ UNCHANGED <<supabase, table, documents, nextId, mock_documents>>

\* routers/admin.py get_department_stats: a fixed list, one entry per
\* department, every number 0.
DepartmentNames == {"NIRA", "URSB", "Immigration", "Finance", "Health"}

get_department_stats ==
    /\ last' = [op |-> "department-stats", code |-> 200,
                body |-> [name \in DepartmentNames |->
                            [documents |-> 0, completed |-> 0,
                             pending |-> 0, efficiency |-> 0]]]
    /\ UNCHANGED <<supabase, table, documents, nextId, mock_documents>>

\* ------------------------------------------------------------ app_new.py
\* mock_documents is a dict keyed by document id; it is held here as the
\* sequence of its values in insertion order.  A review comment key that
\* the dict does not have yet reads NoComment.

\* submit_document: the AI call is not guarded, so a call that raises ends
\* the request with a 500 before the document is built.  submission is the
\* DocumentSubmission (department_id None when the field is left out).
app_new_submit_document(submission, ai) ==
    LET document_id == DocId(nextId)
        document ==
            [id |-> document_id,
             user_id |-> "citizen_001",
             citizen_id |-> "citizen_001",
             document_type |-> submission.document_type,
             department_id |->
                 IF submission.department_id \in {None, ""}
                 THEN "dept_001" ELSE submission.department_id,
             status |-> "ai_processed",
             images |-> submission.images,
             description |-> submission.description,
             ai_extracted_fields |-> "extracted_data",
             official_review_comment |-> NoComment,
             admin_review_comment |-> NoComment]
    IN  /\ nextId <= MaxDocs
        /\ IF ai = "raises"
           THEN /\ last' = Response("Submit", 500)
                /\ UNCHANGED <<mock_documents, nextId>>
           ELSE /\ mock_documents' = Append(mock_documents, document)
                /\ nextId' = nextId + 1
                /\ last' = [op |-> "Submit", code |-> 200,
                            body |-> [document_id |-> document_id,
                                      status |-> document.status]]
        /\ UNCHANGED <<supabase, table, documents>>

\* extract_document_info: answers with fixed mock data and writes nothing.
app_new_extract_document_info(document_id) ==
    /\ last' = Response("RunExtraction",
                        IF IndexOf(mock_documents, document_id) = 0
                        THEN 404 ELSE 200)
    /\ UNCHANGED <<supabase, table, documents, nextId, mock_documents>>

app_new_official_review_document(document_id, comment) ==
    LET i == IndexOf(mock_documents, document_id)
    IN  IF i = 0
        THEN /\ last' = Response("OfficialReview", 404)
             /\ UNCHANGED <<supabase, table, documents, nextId, mock_documents>>
        ELSE /\ mock_documents' =
                    [mock_documents EXCEPT
                        ![i].status = "official_reviewed",
                        ![i].official_review_comment = comment]
             /\ last' = Response("OfficialReview", 200)
             /\ UNCHANGED <<supabase, table, documents, nextId>>

\* status_map.get(action, "under_review")
status_map(action) ==
    CASE action = "approve" -> "approved"
      [] action = "reject" -> "rejected"
      [] action = "request_changes" -> "needs_changes"
      [] OTHER -> "under_review"

app_new_admin_review_document(document_id, action, comment) ==
    LET i == IndexOf(mock_documents, document_id)
        new_status == status_map(action)
    IN  IF i = 0
        THEN /\ last' = Response("AdminReview", 404)
             /\ UNCHANGED <<supabase, table, documents, nextId, mock_documents>>
        ELSE /\ mock_documents' =
                    [mock_documents EXCEPT
                        ![i].status = new_status,
                        ![i].admin_review_comment = comment]
             /\ last' = Response("AdminReview", 200)
             /\ UNCHANGED <<supabase, table, documents, nextId>>

\* --------------------------------------------------------------- inputs
Ids == 1..(MaxDocs + 1)

\* Whether a Supabase call raises: there is no call without a client.
RemoteFailures == IF supabase = "client" THEN BOOLEAN ELSE {FALSE}

PipelineSubmits ==
    [document_type : {"passport"}, citizen_id : {"citizen_001"},
     images : {<<"img">>}, description : {"desc"}]

Comments == {EmptyComment, BlankComment, FineComment}

OfficialRequests(comments) == [comment : comments]

\* Admin requests: the three actions of the contract, an action outside it,
\* and requests that carry a status key.
AdminRequests(comments) ==
    [action : AdminActions \cup {"delete"}, status : {Absent},
     comment : comments]
    \cup [action : {Absent}, status : {"rejected", "archived"},
          comment : comments]

\* -------------------------------------------------------------- actions
Submit(requests, outcomes) ==
    /\ \E request \in requests, ai \in outcomes, remoteFails \in RemoteFailures :
           submit_citizen_document(request, ai, remoteFails)
    /\ UNCHANGED ai_call

OfficialReview(comments) ==
    /\ \E id \in Ids, request \in OfficialRequests(comments), remoteFails \in RemoteFailures :
           official_review_document(id, request, remoteFails)
    /\ UNCHANGED ai_call

AdminReview(requests) ==
    /\ \E id \in Ids, request \in requests, remoteFails \in RemoteFailures :
           admin_review_document(id, request, remoteFails)
    /\ UNCHANGED ai_call

RunExtraction ==
    /\ \E id \in Ids, ai \in AIOutcomes, remoteFails \in RemoteFailures :
           extract_document_information(id, ai, remoteFails)
    /\ UNCHANGED ai_call

AnalyzeFraud ==
    /\ \E id \in Ids, remoteFails \in RemoteFailures :
           analyze_document_fraud(id, remoteFails)
    /\ UNCHANGED ai_call

Get ==
    /\ \E id \in Ids, remoteFails \in RemoteFailures :
           get_document(id, remoteFails)
    /\ UNCHANGED ai_call

\* The review pipeline: documents submitted while no AI service is
\* configured, reviewed with a non-empty comment.
Next ==
    \/ Submit(PipelineSubmits, {"absent"})
    \/ OfficialReview({FineComment})
    \/ AdminReview(AdminRequests({FineComment}))
    \/ RunExtraction
    \/ AnalyzeFraud

Spec == Init /\ [][Next]_vars

\* Reviews with empty, blank and non-empty comments; the admin approves.
ApproveRequests == [action : {"approve"}, status : {Absent}, comment : Comments]

NextComments ==
    \/ Submit(PipelineSubmits, {"absent"})
    \/ OfficialReview(Comments)
    \/ AdminReview(ApproveRequests)

SpecComments == Init /\ [][NextComments]_vars

\* Submissions with declared, absent and unrecognized document types under
\* every outcome of the AI collaborator, each followed by reads.
DeclaredTypes == {"national_id", "passport", "residence_permit"}

AllSubmits ==
    [document_type : DeclaredTypes \cup {Absent},
     citizen_id : {"citizen_001", "citizen_002"},
     images : {<<"img">>}, description : {"desc"}]

NextSubmit ==
    \/ Submit(AllSubmits, AIOutcomes)
    \/ Get

SpecSubmit == Init /\ [][NextSubmit]_vars

\* Routing: submissions whose declared type reaches determine_department
\* (the AI call raises), over every type of the mapping, the words unknown
\* and other, the empty string and a type the mapping does not list.
RouterTypes ==
    {"national_id", "drivers_license", "birth_certificate", "passport",
     "visa", "marriage_certificate", "business_registration",
     "tax_certificate", "health_certificate", "other", "unknown", "",
     "residence_permit"}

RouterSubmits ==
    [document_type : RouterTypes \cup {Absent}, citizen_id : {"citizen_001"},
     images : {<<"img">>}, description : {"desc"}]

NextRouter == Submit(RouterSubmits, {"raises"})

SpecRouter == Init /\ [][NextRouter]_vars

\* The review pipeline with one admin request and two outcomes of the AI
\* collaborator; every handler still meets known and unknown ids in both
\* store modes.
DecisionRequests ==
    [action : {"approve"}, status : {Absent}, comment : {FineComment}]

ExtractionOutcomes == {"absent", "result"}

RunExtractionWith(outcomes) ==
    /\ \E id \in Ids, ai \in outcomes, remoteFails \in RemoteFailures :
           extract_document_information(id, ai, remoteFails)
    /\ UNCHANGED ai_call

NextReview ==
    \/ Submit(PipelineSubmits, {"absent"})
    \/ OfficialReview({FineComment})
    \/ AdminReview(DecisionRequests)
    \/ RunExtractionWith(ExtractionOutcomes)
    \/ AnalyzeFraud

SpecReview == Init /\ [][NextReview]_vars

\* The store and its lists: submissions by two citizens, with and without
\* images, whose declared type reaches the router (the AI call raises) or
\* does not (no AI service).
StoreSubmits ==
    [document_type : {"passport", "national_id"},
     citizen_id : {"citizen_001", "citizen_002"},
     images : {<<>>, <<"img">>}, description : {"desc"}]

MyDocuments ==
    /\ \E remoteFails \in RemoteFailures : get_citizen_documents(remoteFails)
    /\ UNCHANGED ai_call

OfficialDocuments ==
    /\ \E remoteFails \in RemoteFailures : get_official_documents(remoteFails)
    /\ UNCHANGED ai_call

DepartmentDocuments ==
    /\ \E department_id \in DepartmentCodes, remoteFails \in RemoteFailures :
           get_department_documents(department_id, remoteFails)
    /\ UNCHANGED ai_call

NextStore ==
    \/ Submit(StoreSubmits, {"absent", "raises"})
    \/ MyDocuments
    \/ OfficialDocuments
    \/ DepartmentDocuments

SpecStore == Init /\ [][NextStore]_vars

\* The dashboards: the review pipeline with approvals and rejections, and
\* the two statistics endpoints.
StatsRequests ==
    [action : {"approve"}, status : {Absent, "rejected"},
     comment : {FineComment}]

StatsOverview ==
    /\ \E remoteFails \in RemoteFailures, todays \in SUBSET AllIds :
           get_documents_stats_overview(remoteFails, todays)
    /\ UNCHANGED ai_call

DepartmentStats ==
    /\ get_department_stats
    /\ UNCHANGED ai_call

NextStats ==
    \/ Submit(PipelineSubmits, {"absent"})
    \/ OfficialReview({FineComment})
    \/ AdminReview(StatsRequests)
    \/ RunExtraction
    \/ StatsOverview
    \/ DepartmentStats

SpecStats == Init /\ [][NextStats]_vars

\* The document handlers of app_new.py.
Submissions ==
    [document_type : {"passport"},
     department_id : {None, "immigration", "registry"},
     images : {<<"img">>}, description : {"desc"}]

NewSubmit ==
    /\ \E submission \in Submissions, ai \in {"result", "fallback", "raises"} :
           app_new_submit_document(submission, ai)
    /\ UNCHANGED ai_call

NewRunExtraction ==
    /\ \E id \in Ids : app_new_extract_document_info(id)
    /\ UNCHANGED ai_call

NewOfficialReview ==
    /\ \E id \in Ids : app_new_official_review_document(id, FineComment)
    /\ UNCHANGED ai_call

NewAdminReview ==
    /\ \E id \in Ids, action \in {"approve", "reject", "delete"} :
           app_new_admin_review_document(id, action, FineComment)
    /\ UNCHANGED ai_call

NextNew ==
    \/ NewSubmit
    \/ NewRunExtraction
    \/ NewOfficialReview
    \/ NewAdminReview

SpecNew == Init /\ [][NextNew]_vars

\* submit_document of app_new.py around its awaited AI call.
\* GeminiAIService._call_gemini_api opens aiohttp.ClientSession() and posts
\* with no timeout argument and the handler awaits the service with no
\* deadline of its own, so the coroutine resumes when the endpoint answers
\* ("answers": a 200 with content) or when the request ends in an error
\* ("errors": another status, an unreadable body, a transport error, all
\* turned into the fallback dict); nothing in the code resumes it while the
\* endpoint stays silent.  One call is in flight at a time.
Peers == {"answers", "errors", "silent"}

AISubmissions ==
    [document_type : {"passport"}, department_id : {None, "immigration"},
     images : {<<"img">>}, description : {"desc"}]

NewSubmitCall ==
    /\ ai_call.peer = "none"
    /\ nextId <= MaxDocs
    /\ \E submission \in AISubmissions, peer \in Peers :
           ai_call' = [peer |-> peer, submission |-> submission]
    /\ UNCHANGED <<supabase, table, documents, nextId, last, mock_documents>>

NewSubmitReturn ==
    /\ ai_call.peer \in {"answers", "errors"}
    /\ app_new_submit_document(ai_call.submission,
                               IF ai_call.peer = "answers" THEN "result"
                               ELSE "fallback")
    /\ ai_call' = Idle

NextAI ==
    \/ NewSubmitCall
    \/ NewSubmitReturn
    \/ NewOfficialReview

SpecAI == Init /\ [][NextAI]_vars

\* The event loop resumes a coroutine whose awaited call has ended.
SpecAIFair == SpecAI /\ WF_vars(NewSubmitReturn)

\* ------------------------------------------------------------ properties
StatusOf(id) == DocOf(id).status

\* The response reports a failure to the caller.
Failed(response) == response.code # 200

\* The stored document keeps its status and both review comments.
ReviewFieldsUnchanged(id) ==
    /\ DocOf(id)'.status = DocOf(id).status
    /\ DocOf(id)'.official_review_comment = DocOf(id).official_review_comment
    /\ DocOf(id)'.admin_review_comment = DocOf(id).admin_review_comment

\* C1: every change of a stored document's status is a step of the
\* transition table (so approved is entered from official_reviewed only).
C1_StatusFollowsTransitionTable ==
    [][\A id \in AllIds :
          \/ StatusOf(id)' = StatusOf(id)
          \/ <<StatusOf(id), StatusOf(id)'>> \in TransitionTable]_vars

\* C2: an AdminReview of a stored document whose status is not
\* official_reviewed fails and leaves its status and admin_review_comment
\* as they were.
C2_AdminReviewNeedsOfficialReviewed ==
    [][\A id \in AllIds, request \in AdminRequests({FineComment}),
          remoteFails \in RemoteFailures :
          (/\ admin_review_document(id, request, remoteFails)
           /\ StatusOf(id) # "official_reviewed")
          => (/\ Failed(last')
              /\ ReviewFieldsUnchanged(id))]_vars

\* C3: an OfficialReview of a stored document in submitted or ai_processed
\* succeeds, sets official_reviewed and records the comment; in any other
\* status it fails and leaves the document unchanged.
C3_OfficialReviewPrecondition ==
    [][\A id \in AllIds, request \in OfficialRequests({FineComment}),
          remoteFails \in RemoteFailures :
          official_review_document(id, request, remoteFails)
          => IF StatusOf(id) \in {"submitted", "ai_processed"}
             THEN Failed(last')
                     \/ (/\ StatusOf(id)' = "official_reviewed"
                         /\ DocOf(id)'.official_review_comment = request.comment)
             ELSE /\ Failed(last')
                  /\ DocOf(id)' = DocOf(id)]_vars

\* C4: a status of approved, rejected or needs_changes is never left, and
\* RunExtraction on a document in such a status is rejected.
C4_TerminalStatusIsFinal ==
    [][/\ \A id \in AllIds :
             StatusOf(id) \in TerminalStatuses => StatusOf(id)' = StatusOf(id)
       /\ \A id \in AllIds, ai \in AIOutcomes, remoteFails \in RemoteFailures :
             (/\ extract_document_information(id, ai, remoteFails)
              /\ StatusOf(id) \in TerminalStatuses)
             => Failed(last')]_vars

\* C5: every stored document's status is a value of the status vocabulary.
C5_StatusInVocabulary ==
    \A id \in AllIds : StatusOf(id) \in StatusVocabulary

\* C6: a successful AdminReview of a document in official_reviewed leaves
\* it with the status the action maps to: approve -> approved, reject ->
\* rejected, request_changes -> needs_changes.
C6_ActionDeterminesStatus ==
    [][\A id \in AllIds, request \in AdminRequests({FineComment}),
          remoteFails \in RemoteFailures :
          (/\ admin_review_document(id, request, remoteFails)
           /\ StatusOf(id) = "official_reviewed"
           /\ request.action \in AdminActions
           /\ ~Failed(last'))
          => StatusOf(id)' = ActionStatus(request.action)]_vars

\* C7: an AdminReview whose action is not approve, reject or
\* request_changes fails and leaves status and admin_review_comment as
\* they were.
C7_InvalidActionRejected ==
    [][\A id \in AllIds, request \in AdminRequests({FineComment}),
          remoteFails \in RemoteFailures :
          (/\ admin_review_document(id, request, remoteFails)
           /\ request.action \notin AdminActions)
          => (/\ Failed(last')
              /\ ReviewFieldsUnchanged(id))]_vars

\* C8: an OfficialReview or AdminReview whose comment is empty or only
\* whitespace fails and leaves status and review comments as they were.
C8_BlankCommentRejected ==
    [][/\ \A id \in AllIds, request \in OfficialRequests(Comments),
             remoteFails \in RemoteFailures :
             (/\ official_review_document(id, request, remoteFails)
              /\ strip(request.comment) = EmptyComment)
             => (/\ Failed(last')
                 /\ ReviewFieldsUnchanged(id))
       /\ \A id \in AllIds, request \in ApproveRequests,
             remoteFails \in RemoteFailures :
             (/\ admin_review_document(id, request, remoteFails)
              /\ strip(request.comment) = EmptyComment)
             => (/\ Failed(last')
                 /\ ReviewFieldsUnchanged(id))]_vars

\* C9: a get of the id a Submit has just returned finds the document, in
\* status submitted and in the department of its stored document_type.
C9_SubmitThenGet ==
    [][\A remoteFails \in RemoteFailures :
          (/\ last.op = "Submit"
           /\ get_document(last.body.document_id, remoteFails))
          => (/\ last'.code = 200
              /\ last'.body.status = "submitted"
              /\ last'.body.department_id =
                    determine_department(last'.body.document_type))]_vars

\* C10: a Submit that declares document_type t stores a document whose
\* department_id is DepartmentRouter(t), whatever the AI collaborator does.
C10_DeclaredTypeRoutes ==
    [][\A id \in Ids, request \in AllSubmits, ai \in AIOutcomes,
          remoteFails \in RemoteFailures :
          (/\ submit_citizen_document(request, ai, remoteFails)
           /\ id = DocId(nextId)
           /\ request.document_type # Absent)
          => (DocOf(id)'.department_id =
                 determine_department(request.document_type))]_vars

\* The lookup table of the specification's DepartmentRouter (section 4.2).
RouterTable(document_type) ==
    IF document_type \in {"national_id", "drivers_license", "birth_certificate"}
    THEN "nira"
    ELSE IF document_type \in {"passport", "visa"} THEN "immigration"
    ELSE IF document_type \in {"marriage_certificate", "business_registration"}
    THEN "ursb"
    ELSE IF document_type = "tax_certificate" THEN "finance"
    ELSE IF document_type = "health_certificate" THEN "health"
    ELSE "nira"

\* C11: the department determine_department assigns to a document type is
\* the one of the DepartmentRouter table, and nira for every type the table
\* does not list (unknown, other, the empty string included).
C11_RouterIsTheTable ==
    \A id \in AllIds :
        DocOf(id).department_id = RouterTable(DocOf(id).document_type)

\* Two documents are stored, one of a listed type routed away from the
\* default department and one with the empty type routed to nira.
C11_Witness ==
    \E i, j \in AllIds :
        /\ DocOf(i).document_type = "visa"
        /\ DocOf(i).department_id = "immigration"
        /\ DocOf(j).document_type = ""
        /\ DocOf(j).department_id = "nira"

\* C12: the department_id of every stored document, in either
\* application's store, is one of the five department codes.
C12_DepartmentIsACode ==
    /\ \A id \in AllIds : DocOf(id).department_id \in DepartmentCodes
    /\ \A i \in 1..Len(mock_documents) :
          mock_documents[i].department_id \in DepartmentCodes

C14_FailedExtractionReported ==
    [][\A id \in AllIds, ai \in {"absent", "raises"},
          remoteFails \in RemoteFailures :
          extract_document_information(id, ai, remoteFails)
          => (/\ StatusOf(id)' = StatusOf(id)
              /\ DocOf(id)'.ai_extraction = DocOf(id).ai_extraction
              /\ Failed(last'))]_vars

Found(id, remoteFails) == get_document_by_id(id, remoteFails).src # None

\* C17: an AnalyzeFraud that finds its document leaves the status as it
\* was and leaves the document with the one ai_fraud_analysis block built
\* from this call, whatever the block held before.
C17_FraudOverwritesKeepsStatus ==
    [][\A id \in AllIds, remoteFails \in RemoteFailures :
          (/\ Found(id, remoteFails)
           /\ analyze_document_fraud(id, remoteFails))
          => (/\ StatusOf(id)' = StatusOf(id)
              /\ DocOf(id)'.ai_fraud_analysis = "block")]_vars

\* C18: an AnalyzeFraud that finds its document answers success and the
\* document then has an ai_fraud_analysis block.
C18_FraudCompletes ==
    [][\A id \in AllIds, remoteFails \in RemoteFailures :
          (/\ Found(id, remoteFails)
           /\ analyze_document_fraud(id, remoteFails))
          => (/\ ~Failed(last')
              /\ DocOf(id)'.ai_fraud_analysis # None)]_vars

\* C19: of two OfficialReviews of the same document only one writes.  The
\* handler reaches no suspension point between its read and its writes
\* (DatabaseService.get_document_by_id awaits nothing, and the NameError
\* on DocumentAnalysis precedes the awaited AI call), so on the event loop
\* each review is one step and two concurrent reviews run one after the
\* other: the review that runs second finds the document in
\* official_reviewed and must leave official_review_comment and
\* official_reviewed_at as the first wrote them.
C19_OneReviewWrites ==
    [][\A id \in AllIds, request \in OfficialRequests(Comments),
          remoteFails \in RemoteFailures :
          (/\ StatusOf(id) = "official_reviewed"
           /\ official_review_document(id, request, remoteFails))
          => (/\ DocOf(id)'.official_review_comment =
                    DocOf(id).official_review_comment
              /\ DocOf(id)'.official_reviewed_at =
                    DocOf(id).official_reviewed_at)]_vars

\* C20: a RunExtraction, OfficialReview, AdminReview or AnalyzeFraud whose
\* document id no stored document has is answered with 404 Document not
\* found and leaves the remote table and the in-memory list as they were.
C20_UnknownIdNotFound ==
    [][\A id \in Ids \ AllIds, remoteFails \in RemoteFailures :
          (\/ \E request \in OfficialRequests({FineComment}) :
                 official_review_document(id, request, remoteFails)
           \/ \E request \in DecisionRequests :
                 admin_review_document(id, request, remoteFails)
           \/ \E ai \in ExtractionOutcomes :
                 extract_document_information(id, ai, remoteFails)
           \/ analyze_document_fraud(id, remoteFails))
          => (/\ last'.code = 404
              /\ table' = table
              /\ documents' = documents)]_vars

\* A store that holds documents has answered a request for another id
\* with not-found (without a Supabase client a 404 has no other cause).
C20_Witness ==
    /\ supabase = "none"
    /\ Len(documents) = MaxDocs
    /\ last.code = 404
    /\ last.op \in {"RunExtraction", "OfficialReview", "AdminReview",
                    "AnalyzeFraud"}

\* C21: a Submit whose images sequence is empty is answered with a failure
\* and leaves the remote table and the in-memory list as they were.
C21_EmptyImagesRejected ==
    [][\A request \in StoreSubmits, ai \in {"absent", "raises"},
          remoteFails \in RemoteFailures :
          (/\ request.images = <<>>
           /\ submit_citizen_document(request, ai, remoteFails))
          => (/\ Failed(last')
              /\ table' = table
              /\ documents' = documents)]_vars

\* The specification's counts (section 4.3) over a sequence of documents.
OverviewOf(docs) ==
    LET Pending(doc) == doc.status = "submitted"
        AIProcessed(doc) ==
            doc.status = "ai_processed" \/ doc.ai_extraction # None
        OfficialReviewed(doc) == doc.status = "official_reviewed"
        AdminReviewed(doc) ==
            doc.admin_review_comment # NoComment \/ doc.ai_assessment # None
        Completed(doc) == doc.status = "approved"
        Rejected(doc) == doc.status = "rejected"
    IN  [total_documents |-> Len(docs),
         pending |-> Len(SelectSeq(docs, Pending)),
         ai_processed |-> Len(SelectSeq(docs, AIProcessed)),
         official_review |-> Len(SelectSeq(docs, OfficialReviewed)),
         admin_review |-> Len(SelectSeq(docs, AdminReviewed)),
         completed |-> Len(SelectSeq(docs, Completed)),
         rejected |-> Len(SelectSeq(docs, Rejected))]

OverviewKeys ==
    {"total_documents", "pending", "ai_processed", "official_review",
     "admin_review", "completed", "rejected"}

\* C22: every stats overview reports, for each of its seven counts, the
\* count of the specification taken over all stored documents.
C22_OverviewCountsTheStore ==
    [][\A remoteFails \in RemoteFailures, todays \in SUBSET AllIds :
          get_documents_stats_overview(remoteFails, todays)
          => \A key \in OverviewKeys :
                last'.body[key] = OverviewOf(AllDocs)[key]]_vars

\* C23: on an empty store the stats overview answers with every count 0,
\* and the department statistics answer with efficiency 0 for every
\* department; both answer with success.
C23_EmptyStoreAllZero ==
    [][AllIds = {}
       => /\ \A remoteFails \in RemoteFailures :
               get_documents_stats_overview(remoteFails, {})
               => (/\ ~Failed(last')
                   /\ \A key \in OverviewKeys \cup {"completed_today"} :
                         last'.body[key] = 0)
          /\ get_department_stats
               => (/\ ~Failed(last')
                   /\ \A name \in DepartmentNames :
                         last'.body[name].efficiency = 0)]_vars

\* The overview has been asked of a store that holds no document.
C23_Witness ==
    /\ AllIds = {}
    /\ last.op = "stats-overview"
    /\ last.code = 200
    /\ last.body.total_documents = 0

Range(seq) == {seq[i] : i \in 1..Len(seq)}

\* C24: the citizen's list holds exactly the stored documents of that
\* citizen (my-documents lists citizen_001), and the list for "all" holds
\* every stored document.
C24_ListByCitizenExact ==
    [][\A remoteFails \in RemoteFailures :
          /\ get_citizen_documents(remoteFails)
             => Range(last'.body.documents) =
                   {doc \in Range(AllDocs) : doc.citizen_id = "citizen_001"}
          /\ get_official_documents(remoteFails)
             => Range(last'.body.documents) = Range(AllDocs)]_vars

\* C25: the list of department d holds exactly the stored documents whose
\* department_id is d.
C25_ListByDepartmentExact ==
    [][\A department_id \in DepartmentCodes, remoteFails \in RemoteFailures :
          get_department_documents(department_id, remoteFails)
          => Range(last'.body.documents) =
                {doc \in Range(AllDocs) : doc.department_id = department_id}]_vars

CreationFields(doc) ==
    <<doc.id, doc.citizen_id, doc.document_type, doc.images, doc.description>>

\* C27: no step changes the id, citizen_id, document_type, images or
\* description of a stored document; in particular no RunExtraction,
\* OfficialReview, AdminReview or AnalyzeFraud does.
C27_CreationFieldsKept ==
    [][\A id \in AllIds :
          CreationFields(DocOf(id))' = CreationFields(DocOf(id))]_vars

\* A document that went through extraction and both reviews in the
\* in-memory store still has the fields of its submission.
C27_Witness ==
    \E id \in AllIds :
        /\ DocOf(id).ai_extraction # None
        /\ DocOf(id).official_review_comment # NoComment
        /\ DocOf(id).admin_review_comment # NoComment
        /\ last.op = "AnalyzeFraud"
        /\ CreationFields(DocOf(id)) =
              <<id, "citizen_001", "unknown", <<"img">>, "desc">>

C29_BucketsWithinTotal ==
    last.op = "stats-overview"
    => (/\ last.body.pending + last.body.official_review
            + last.body.completed + last.body.rejected
              <= last.body.total_documents
        /\ last.body.completed_today <= last.body.completed)

\* An overview of a store with an approved document, updated today, and a
\* rejected one.
C29_Witness ==
    /\ last.op = "stats-overview"
    /\ last.body.completed = 1
    /\ last.body.completed_today = 1
    /\ last.body.rejected = 1
    /\ last.body.total_documents = 2

\* C30: an OfficialReview, AdminReview, RunExtraction or AnalyzeFraud that
\* answers with an error (404 or 500) leaves every stored document, and so
\* the status, review comments and AI blocks of its target, as it was.
C30_NoMutateThenFail ==
    [][\A id \in Ids, remoteFails \in RemoteFailures :
          (/\ \/ \E request \in OfficialRequests({FineComment}) :
                    official_review_document(id, request, remoteFails)
              \/ \E request \in DecisionRequests :
                    admin_review_document(id, request, remoteFails)
              \/ \E ai \in ExtractionOutcomes :
                    extract_document_information(id, ai, remoteFails)
              \/ analyze_document_fraud(id, remoteFails)
           /\ Failed(last'))
          => (/\ table' = table
              /\ documents' = documents)]_vars

\* An internal failure has been reported for a document that is stored in
\* memory and has been reviewed.
C30_Witness ==
    /\ supabase = "none"
    /\ last.op = "AnalyzeFraud"
    /\ last.code = 500
    /\ \E id \in AllIds : StatusOf(id) = "official_reviewed"

====
